---- MODULE Spec2Model ----
(***************************************************************************)
(* A model of the Ruby extension ext/pg_query/pg_query.c, whose two public  *)
(* functions are PgQuery._raw_parse and PgQuery.normalize: the per-call     *)
(* memory context, the redirection of stderr, the constant-recording tree   *)
(* walk, the resolution of the constants' lengths with the core scanner    *)
(* and the rewriting of the query text with one '?' per constant.  The      *)
(* process lives on from call to call: what a call leaves behind (memory    *)
(* contexts, the exception stack, file descriptors) is there for the next.  *)
(*                                                                         *)
(* Byte offsets are 0-based as in the C code; TLA+ sequences are 1-based,  *)
(* so byte k of a text q is q[k+1].                                        *)
(***************************************************************************)
EXTENDS Integers, Sequences, FiniteSets, TLC

\* ------------------------------------------------------------------ bounds
\* longest Ruby string passed to PgQuery.normalize or PgQuery._raw_parse
MaxLen == 3
\* most bytes of a text and constants in the statement list returned by
\* raw_parser for it, taken together
MaxSize == 6
\* most nodes below the root of a syntax tree returned by raw_parser for
\* the text "1"
MaxNodes == 3
\* the "wide" syntax trees hold InitBufSize + WideExtra constants
WideExtra == 1
\* most memory contexts left behind by earlier calls when a call begins
MaxLeaked == 1

\* jstate.clocations_buf_size = 32
InitBufSize == 32

\* ------------------------------------------------------------------ bytes
NUL == "NUL"
\* the bytes of SQL text: a letter, a digit, the minus sign, a blank
Chars == {"a", "1", "-", " "}
\* a Ruby string may also hold a zero byte
Bytes == Chars \cup {NUL}

SeqsUpTo(S, n) == UNION {[1..k -> S] : k \in 0..n}

\* ------------------------------------------------------------------ values
Qnil == [nil |-> TRUE, class |-> "NilClass", str |-> <<>>, message |-> "", cursorpos |-> 0]
RString(s) == [nil |-> FALSE, class |-> "String", str |-> s, message |-> "", cursorpos |-> 0]
\* a Ruby object that is not a String
Fixnum == [nil |-> FALSE, class |-> "Fixnum", str |-> <<>>, message |-> "", cursorpos |-> 0]
\* the objects Ruby code passes to the two methods
Values == {RString(s) : s \in SeqsUpTo(Bytes, MaxLen)} \cup {Fixnum, Qnil}
\* Check_Type(input, T_STRING) on another object
TypeError == [nil |-> FALSE, class |-> "TypeError", str |-> <<>>,
              message |-> "wrong argument type", cursorpos |-> 0]
ArgumentError == [nil |-> FALSE, class |-> "ArgumentError", str |-> <<>>,
                  message |-> "string contains null byte", cursorpos |-> 0]
\* rb_raise(rb_eIOError, ...)
IOError == [nil |-> FALSE, class |-> "IOError", str |-> <<>>,
            message |-> "Failed to open pipe, too many open file descriptors",
            cursorpos |-> 0]
\* what Ruby raises when new_parse_error cannot build the ParseError
\* (rb_const_get finds no PgQuery::ParseError)
NameError == [nil |-> FALSE, class |-> "NameError", str |-> <<>>,
              message |-> "uninitialized constant PgQuery::ParseError", cursorpos |-> 0]
\* the Array [str, stderr_buffer] that pg_query_raw_parse returns: the tree
\* as text in str, what was read from stderr in message
RArray(s, e) == [nil |-> FALSE, class |-> "Array", str |-> s, message |-> e, cursorpos |-> 0]

\* new_parse_error: PgQuery::ParseError.new(error->message, error->cursorpos)
new_parse_error(error) ==
    [nil |-> FALSE, class |-> "PgQuery::ParseError", str |-> <<>>,
     message |-> error.message, cursorpos |-> error.cursorpos]

\* ------------------------------------------------------------------ syntax trees
NullNode == [tag |-> "NULL", location |-> -1, fails |-> FALSE, kids |-> <<>>]
ConstNode(l, f) == [tag |-> "A_Const", location |-> l, fails |-> f, kids |-> <<>>]
OtherNode(f, ks) == [tag |-> "Other", location |-> -1, fails |-> f, kids |-> ks]
ListNode(ks) == [tag |-> "List", location |-> -1, fails |-> FALSE, kids |-> ks]

\* the leaves a parser can hand back for a text of L bytes: a NULL pointer or
\* an A_Const whose location is unknown (-1) or a byte offset of the text
Leaves(L) == {NullNode} \cup {ConstNode(l, f) : l \in -1..(L-1), f \in BOOLEAN}

\* forests (sequences of sibling nodes) of exactly n nodes, at most two levels deep
RECURSIVE Forests(_, _, _)
Forests(n, L, deep) ==
    IF n = 0 THEN {<<>>}
    ELSE UNION { { <<first>> \o rest : first \in
                       IF k = 1 THEN Leaves(L) \cup {OtherNode(f, <<>>) : f \in BOOLEAN}
                       ELSE IF deep THEN {}
                       ELSE {OtherNode(f, ks) : f \in BOOLEAN, ks \in Forests(k-1, L, TRUE)},
                   rest \in Forests(n-k, L, deep) }
               : k \in 1..n }

\* a list of n constants, all at byte offset 0
WideTree(n) == ListNode([j \in 1..n |-> ConstNode(0, FALSE)])

\* lists of constants at any byte offsets of a text of L bytes, text and
\* list within MaxSize
FlatTrees(L) ==
    {ListNode(ks) : ks \in SeqsUpTo({ConstNode(l, FALSE) : l \in 0..(L-1)}, MaxSize - L) \ {<<>>}}

\* trees of the text "1": every shape of up to MaxNodes nodes (NULL
\* pointers, constants without a location, nodes whose visit fails), and a
\* list of more constants than the location array first holds
RichTrees ==
    {ListNode(ks) : ks \in UNION {Forests(n, 1, FALSE) : n \in 1..MaxNodes}}
      \cup {WideTree(InitBufSize + WideExtra)}

\* what raw_parser can return for the text q: NIL, or a List of statements
Trees(q) ==
    {NullNode} \cup FlatTrees(Len(q)) \cup (IF q = <<"1">> THEN RichTrees ELSE {})

RECURSIVE nodeToString(_)
\* nodeToString: the text form of a tree, node by node
nodeToString(n) ==
    LET RECURSIVE all(_)
        all(ks) == IF ks = <<>> THEN <<>> ELSE nodeToString(Head(ks)) \o all(Tail(ks))
    IN CASE n.tag = "NULL"    -> <<"<>">>
         [] n.tag = "A_Const" -> <<"{A_CONST", ":location", ToString(n.location), "}">>
         [] n.tag = "List"    -> <<"(">> \o all(n.kids) \o <<")">>
         [] OTHER             -> <<"{NODE">> \o all(n.kids) \o <<"}">>

\* what read() can find in the pipe that stands in for stderr: nothing, or
\* a message the parser wrote
StderrTexts == {"", "WARNING"}

\* the ErrorData raw_parser can raise for the text q
ParseErrors(q) ==
    {[message |-> "syntax error", cursorpos |-> c] : c \in 0..Len(q)}

\* ------------------------------------------------------------------ core scanner
\* The flex scanner of PostgreSQL, reduced to the bytes of Chars: blanks
\* separate tokens, "--" starts a comment that runs to the end of the line,
\* a letter starts an identifier (letters and digits), digits form an
\* integer, a lone '-' is an operator.

RECURSIVE RunEnd(_, _, _)
\* the offset of the first byte at or after p that is not in cls
RunEnd(q, p, cls) ==
    IF p < Len(q) /\ q[p+1] \in cls THEN RunEnd(q, p+1, cls) ELSE p

RECURSIVE ScanTokens(_, _)
\* the tokens of q from offset p on: [loc, end) byte ranges
ScanTokens(q, p) ==
    IF p >= Len(q) THEN <<>>
    ELSE LET c == q[p+1] IN
         CASE c = " " -> ScanTokens(q, p+1)
           [] c = "-" -> IF p+1 < Len(q) /\ q[p+2] = "-"
                         THEN <<>>
                         ELSE <<[loc |-> p, end |-> p+1]>> \o ScanTokens(q, p+1)
           [] c = "1" -> LET e == RunEnd(q, p, {"1"})
                         IN <<[loc |-> p, end |-> e]>> \o ScanTokens(q, e)
           [] OTHER   -> LET e == RunEnd(q, p, {"a", "1"})
                         IN <<[loc |-> p, end |-> e]>> \o ScanTokens(q, e)

Tokens(q) == ScanTokens(q, 0)

\* scanner_init: a scanner positioned before the first token; tokend is the
\* offset at which flex has put a zero byte into scanbuf (-1: nowhere yet)
NoScanner ==
    [state |-> "none", pos |-> 0, tokend |-> -1, eof |-> FALSE,
     inits |-> 0, finishes |-> 0, calls |-> 0, after_eof |-> FALSE]

scanner_init(sc) ==
    [sc EXCEPT !.state = "active", !.pos = 0, !.tokend = -1, !.eof = FALSE,
               !.inits = @ + 1]

scanner_finish(sc) == [sc EXCEPT !.state = "finished", !.finishes = @ + 1]

\* core_yylex: the next token (tok > 0, yylloc its start offset) or 0 at the
\* end of the input
core_yylex(sc, toks) ==
    IF sc.pos < Len(toks)
    THEN [sc |-> [sc EXCEPT !.pos = @ + 1, !.calls = @ + 1,
                            !.tokend = toks[sc.pos + 1].end,
                            !.after_eof = @ \/ sc.eof],
          tok |-> 1, yylloc |-> toks[sc.pos + 1].loc]
    ELSE [sc |-> [sc EXCEPT !.calls = @ + 1, !.eof = TRUE,
                            !.after_eof = @ \/ sc.eof],
          tok |-> 0, yylloc |-> -1]

\* yyextra.scanbuf: the text with flex's zero byte after the current token
\* and the two end-of-buffer zero bytes
ScanBuf(q, tokend) ==
    [k \in 0..(Len(q) + 1) |->
        IF k = tokend \/ k >= Len(q) THEN NUL ELSE q[k+1]]

RECURSIVE strlen(_, _)
\* the number of bytes from offset p up to the next zero byte
strlen(buf, p) == IF buf[p] = NUL THEN 0 ELSE 1 + strlen(buf, p + 1)

\* ------------------------------------------------------------------ fill_in_constant_lengths
\* comp_location: the qsort comparator
comp_location(a, b) ==
    IF a.location < b.location THEN -1
    ELSE IF a.location > b.location THEN 1
    ELSE 0

RECURSIVE SortedInsert(_, _)
SortedInsert(sorted, x) ==
    IF sorted = <<>> THEN <<x>>
    ELSE IF comp_location(x, Head(sorted)) < 0 THEN <<x>> \o sorted
    ELSE <<Head(sorted)>> \o SortedInsert(Tail(sorted), x)

RECURSIVE qsort(_)
\* qsort(clocations, count, ..., comp_location); records that compare equal
\* are equal here (every length is still -1), so their order shows nowhere
qsort(locs) ==
    IF Len(locs) <= 1 THEN locs
    ELSE SortedInsert(qsort(SubSeq(locs, 1, Len(locs) - 1)), locs[Len(locs)])

\* the locals of fill_in_constant_lengths before its loop
FillStart == [i |-> 0, last_loc |-> -1, tok |-> -1, exited |-> FALSE]

RECURSIVE LexUntilNoSign(_, _, _, _)
\* a faulty LexUntil: no second token for a location whose byte is '-'
LexUntilNoSign(q, toks, sc, loc) ==
    LET r == core_yylex(sc, toks) IN
    IF r.tok = 0 THEN [sc |-> r.sc, tok |-> 0, found |-> FALSE, length |-> -1]
    ELSE IF r.yylloc >= loc
    THEN [sc |-> r.sc, tok |-> r.tok, found |-> TRUE,
          length |-> strlen(ScanBuf(q, r.sc.tokend), loc)]
    ELSE LexUntilNoSign(q, toks, r.sc, loc)

RECURSIVE LexUntilEofLength(_, _, _, _)
\* a faulty LexUntil: the end of the input is not tested for, the length is
\* taken from the scan buffer all the same
LexUntilEofLength(q, toks, sc, loc) ==
    LET r == core_yylex(sc, toks) IN
    IF r.tok = 0
    THEN [sc |-> r.sc, tok |-> 0, found |-> TRUE,
          length |-> strlen(ScanBuf(q, r.sc.tokend), loc)]
    ELSE IF r.yylloc >= loc
    THEN IF q[loc + 1] = "-"
         THEN LET r2 == core_yylex(r.sc, toks) IN
              [sc |-> r2.sc, tok |-> r2.tok, found |-> TRUE,
               length |-> strlen(ScanBuf(q, r2.sc.tokend), loc)]
         ELSE [sc |-> r.sc, tok |-> r.tok, found |-> TRUE,
               length |-> strlen(ScanBuf(q, r.sc.tokend), loc)]
    ELSE LexUntilEofLength(q, toks, r.sc, loc)

RECURSIVE LexUntilTokenLength(_, _, _, _)
\* a faulty LexUntil: the length of the token found, not the distance from
\* the location to its end
LexUntilTokenLength(q, toks, sc, loc) ==
    LET r == core_yylex(sc, toks) IN
    IF r.tok = 0 THEN [sc |-> r.sc, tok |-> 0, found |-> FALSE, length |-> -1]
    ELSE IF r.yylloc >= loc
    THEN IF q[loc + 1] = "-"
         THEN LET r2 == core_yylex(r.sc, toks) IN
              IF r2.tok = 0
              THEN [sc |-> r2.sc, tok |-> 0, found |-> FALSE, length |-> -1]
              ELSE [sc |-> r2.sc, tok |-> r2.tok, found |-> TRUE,
                    length |-> r2.sc.tokend - loc]
         ELSE [sc |-> r.sc, tok |-> r.tok, found |-> TRUE,
               length |-> r.sc.tokend - r.yylloc]
    ELSE LexUntilTokenLength(q, toks, r.sc, loc)

RECURSIVE LexUntil(_, _, _, _)
\* the inner for(;;): lex tokens until one starts at or after loc; found
\* says that locs[i].length was assigned
LexUntil(q, toks, sc, loc) ==
    LET r == core_yylex(sc, toks) IN
    IF r.tok = 0 THEN [sc |-> r.sc, tok |-> 0, found |-> FALSE, length |-> -1]
    ELSE IF r.yylloc >= loc
    THEN IF q[loc + 1] = "-"
         THEN LET r2 == core_yylex(r.sc, toks) IN
              IF r2.tok = 0
              THEN [sc |-> r2.sc, tok |-> 0, found |-> FALSE, length |-> -1]
              ELSE [sc |-> r2.sc, tok |-> r2.tok, found |-> TRUE,
                    length |-> strlen(ScanBuf(q, r2.sc.tokend), loc)]
         ELSE [sc |-> r.sc, tok |-> r.tok, found |-> TRUE,
               length |-> strlen(ScanBuf(q, r.sc.tokend), loc)]
    ELSE LexUntil(q, toks, r.sc, loc)

\* a faulty FillIter: only a smaller location counts as a duplicate
FillIterDupStrict(q, locs, sc, f) ==
    LET loc == locs[f.i + 1].location IN
    IF loc < f.last_loc
    THEN [locs |-> locs, sc |-> sc, f |-> [f EXCEPT !.i = @ + 1]]
    ELSE LET r == LexUntil(q, Tokens(q), sc, loc)
             locs2 == IF r.found THEN [locs EXCEPT ![f.i + 1].length = r.length]
                      ELSE locs
         IN IF r.tok = 0
            THEN [locs |-> locs2, sc |-> r.sc,
                  f |-> [f EXCEPT !.tok = 0, !.exited = TRUE]]
            ELSE [locs |-> locs2, sc |-> r.sc,
                  f |-> [f EXCEPT !.tok = r.tok, !.last_loc = loc, !.i = @ + 1]]

\* a faulty FillIter: at the end of the input it goes on with the next
\* constant instead of leaving the loop
FillIterNoBreak(q, locs, sc, f) ==
    LET loc == locs[f.i + 1].location IN
    IF loc <= f.last_loc
    THEN [locs |-> locs, sc |-> sc, f |-> [f EXCEPT !.i = @ + 1]]
    ELSE LET r == LexUntil(q, Tokens(q), sc, loc)
             locs2 == IF r.found THEN [locs EXCEPT ![f.i + 1].length = r.length]
                      ELSE locs
         IN IF r.tok = 0
            THEN [locs |-> locs2, sc |-> r.sc,
                  f |-> [f EXCEPT !.tok = 0, !.i = @ + 1]]
            ELSE [locs |-> locs2, sc |-> r.sc,
                  f |-> [f EXCEPT !.tok = r.tok, !.last_loc = loc, !.i = @ + 1]]

\* one pass of the loop over the constants (the body for index f.i)
FillIter(q, locs, sc, f) ==
    LET loc == locs[f.i + 1].location IN
    IF loc <= f.last_loc
    THEN [locs |-> locs, sc |-> sc, f |-> [f EXCEPT !.i = @ + 1]]
    ELSE LET r == LexUntil(q, Tokens(q), sc, loc)
             locs2 == IF r.found THEN [locs EXCEPT ![f.i + 1].length = r.length]
                      ELSE locs
         IN IF r.tok = 0
            THEN [locs |-> locs2, sc |-> r.sc,
                  f |-> [f EXCEPT !.tok = 0, !.exited = TRUE]]
            ELSE [locs |-> locs2, sc |-> r.sc,
                  f |-> [f EXCEPT !.tok = r.tok, !.last_loc = loc, !.i = @ + 1]]

FillLoopDone(locs, f) == f.exited \/ f.i >= Len(locs)

RECURSIVE FillLoop(_, _, _, _)
FillLoop(q, locs, sc, f) ==
    IF FillLoopDone(locs, f) THEN [locs |-> locs, sc |-> sc, f |-> f]
    ELSE LET n == FillIter(q, locs, sc, f) IN FillLoop(q, n.locs, n.sc, n.f)

\* the whole function: the sorted, resolved records
fill_in_constant_lengths(q, locs) ==
    FillLoop(q, IF Len(locs) > 1 THEN qsort(locs) ELSE locs,
             scanner_init(NoScanner), FillStart).locs

\* ------------------------------------------------------------------ generate_normalized_query
\* a byte of palloc'd memory that was never written
Uninit == "uninit"

\* palloc(query_len + 1)
palloc(n) == [k \in 0..(n - 1) |-> Uninit]

\* memcpy(norm_query + dst, query + src, n), n >= 0
memcpy(buf, dst, q, src, n) ==
    [k \in DOMAIN buf |-> IF dst <= k /\ k < dst + n THEN q[src + (k - dst) + 1] ELSE buf[k]]

\* the locals of generate_normalized_query before its loop
GenStart ==
    [i |-> 0, len_to_wrt |-> 0, quer_loc |-> 0, n_quer_loc |-> 0,
     last_off |-> 0, last_tok_len |-> 0, fault |-> "none"]

\* a faulty GenIter: the chunk before a constant is copied from the start
\* of the previous constant, not from its end
GenIterCopyFromLastOff(q, locs, g, buf) ==
    LET off == locs[g.i + 1].location
        tok_len == locs[g.i + 1].length
        len_to_wrt == (off - g.last_off) - g.last_tok_len
        n1 == g.n_quer_loc + len_to_wrt
    IN IF tok_len < 0
       THEN [g |-> [g EXCEPT !.i = @ + 1], buf |-> buf]
       ELSE IF len_to_wrt < 0
       THEN [g |-> [g EXCEPT !.len_to_wrt = len_to_wrt, !.fault = "len_to_wrt >= 0 (305)"],
             buf |-> buf]
       ELSE [g |-> [g EXCEPT !.i = @ + 1, !.len_to_wrt = len_to_wrt,
                             !.n_quer_loc = n1 + 1, !.quer_loc = off + tok_len,
                             !.last_off = off, !.last_tok_len = tok_len],
             buf |-> [memcpy(buf, g.n_quer_loc, q, g.last_off, len_to_wrt)
                        EXCEPT ![n1] = "?"]]

\* a faulty GenIter: the source cursor stops at the constant instead of
\* after it
GenIterNoAdvance(q, locs, g, buf) ==
    LET off == locs[g.i + 1].location
        tok_len == locs[g.i + 1].length
        len_to_wrt == (off - g.last_off) - g.last_tok_len
        n1 == g.n_quer_loc + len_to_wrt
    IN IF tok_len < 0
       THEN [g |-> [g EXCEPT !.i = @ + 1], buf |-> buf]
       ELSE IF len_to_wrt < 0
       THEN [g |-> [g EXCEPT !.len_to_wrt = len_to_wrt, !.fault = "len_to_wrt >= 0 (305)"],
             buf |-> buf]
       ELSE [g |-> [g EXCEPT !.i = @ + 1, !.len_to_wrt = len_to_wrt,
                             !.n_quer_loc = n1 + 1, !.quer_loc = off,
                             !.last_off = off, !.last_tok_len = tok_len],
             buf |-> [memcpy(buf, g.n_quer_loc, q, g.quer_loc, len_to_wrt)
                        EXCEPT ![n1] = "?"]]

\* one pass of the loop over the constants (the body for index g.i); fault
\* names the assertion that does not hold
GenIter(q, locs, g, buf) ==
    LET off == locs[g.i + 1].location
        tok_len == locs[g.i + 1].length
        len_to_wrt == (off - g.last_off) - g.last_tok_len
        n1 == g.n_quer_loc + len_to_wrt
    IN IF tok_len < 0
       THEN [g |-> [g EXCEPT !.i = @ + 1], buf |-> buf]
       ELSE IF len_to_wrt < 0
       THEN [g |-> [g EXCEPT !.len_to_wrt = len_to_wrt, !.fault = "len_to_wrt >= 0 (305)"],
             buf |-> buf]
       ELSE [g |-> [g EXCEPT !.i = @ + 1, !.len_to_wrt = len_to_wrt,
                             !.n_quer_loc = n1 + 1, !.quer_loc = off + tok_len,
                             !.last_off = off, !.last_tok_len = tok_len],
             buf |-> [memcpy(buf, g.n_quer_loc, q, g.quer_loc, len_to_wrt)
                        EXCEPT ![n1] = "?"]]

\* after the loop: the rest of the text and the terminator
GenTailOf(q, g, buf) ==
    LET query_len == Len(q)
        len_to_wrt == query_len - g.quer_loc
        n1 == g.n_quer_loc + len_to_wrt
    IN IF len_to_wrt < 0
       THEN [g |-> [g EXCEPT !.len_to_wrt = len_to_wrt, !.fault = "len_to_wrt >= 0 (323)"],
             buf |-> buf]
       ELSE IF n1 > query_len
       THEN [g |-> [g EXCEPT !.len_to_wrt = len_to_wrt, !.n_quer_loc = n1,
                             !.fault = "n_quer_loc <= query_len (327)"],
             buf |-> buf]
       ELSE [g |-> [g EXCEPT !.len_to_wrt = len_to_wrt, !.n_quer_loc = n1],
             buf |-> [memcpy(buf, g.n_quer_loc, q, g.quer_loc, len_to_wrt)
                        EXCEPT ![n1] = NUL]]

RECURSIVE GenLoop(_, _, _, _)
GenLoop(q, locs, g, buf) ==
    IF g.fault # "none" THEN [g |-> g, buf |-> buf]
    ELSE IF g.i >= Len(locs) THEN GenTailOf(q, g, buf)
    ELSE LET n == GenIter(q, locs, g, buf) IN GenLoop(q, locs, n.g, n.buf)

\* the C string at the start of buf
CStr(buf) == [k \in 1..strlen(buf, 0) |-> buf[k - 1]]

\* the whole function on the collected records: the locals at the end and
\* the buffer
generate_normalized_query(q, locs) ==
    GenLoop(q, fill_in_constant_lengths(q, locs), GenStart, palloc(Len(q) + 1))

\* ------------------------------------------------------------------ state
VARIABLES
    func,                   \* the function that was called: "normalize" or "raw_parse"
    input,                  \* the Ruby object passed to it
    pc,                     \* where the call stands
    contexts,               \* TopMemoryContext and the contexts the calls have made
                            \* under it and not deleted, in the order of creation
    CurrentMemoryContext,
    PG_exception_stack,     \* where ereport(ERROR) jumps to
    errordata_stack_depth,  \* errors raised by ereport and not yet flushed
    STDERR_FILENO,          \* what file descriptor 2 writes to
    open_fds,               \* descriptors the extension has opened and not closed
    ctx,                    \* the call's context: its place in contexts, 0 for NULL
    save_exception_stack,   \* PG_TRY's copy of PG_exception_stack
    stderr_global,          \* what the dup of descriptor 2 writes to; "-1" when
                            \* dup has failed
    query,                  \* str: the C string of the input
    tree,                   \* what raw_parser returned
    worklist,               \* the nodes const_record_walker has yet to visit
    caught,                 \* failed visits caught by const_record_walker
    jstate,                 \* pgssConstLocations
    scanner,                \* the core scanner of fill_in_constant_lengths
    fill,                   \* the locals of fill_in_constant_lengths
    gen,                    \* the locals of generate_normalized_query
    norm_query,             \* the result buffer of generate_normalized_query
    result,
    error

\* what outlives a call
process == <<contexts, CurrentMemoryContext, PG_exception_stack, errordata_stack_depth,
             STDERR_FILENO, open_fds>>
\* the call and the locals of its frame
frame == <<func, input, ctx, save_exception_stack, stderr_global>>
\* the locals of the normalization
work == <<query, tree, worklist, caught, jstate, scanner, fill, gen, norm_query>>

vars == <<process, frame, work, pc, result, error>>

TopMemoryContext == "TopMemoryContext"
\* the context of the error subsystem, made by MemoryContextInit
ErrorContext == "ErrorContext"

\* where ereport(ERROR) leaves CurrentMemoryContext when the handler gets
\* control: where it was, or in ErrorContext, in which the error subsystem
\* works while it reports
AfterError == {CurrentMemoryContext, ErrorContext}

EmptyJstate == [clocations |-> <<>>, clocations_buf_size |-> 0, clocations_count |-> 0]

\* the locals of a call before its first statement
FreshFrame ==
    /\ ctx = 0
    /\ save_exception_stack = "NULL"
    /\ stderr_global = "none"
    /\ query = <<>>
    /\ tree = NullNode
    /\ worklist = <<>>
    /\ caught = 0
    /\ jstate = EmptyJstate
    /\ scanner = NoScanner
    /\ fill = FillStart
    /\ gen = GenStart
    /\ norm_query = <<>>
    /\ result = Qnil
    /\ error = Qnil

\* Init_pg_query: MemoryContextInit and the two methods; nothing called yet
Init ==
    /\ func = "none"
    /\ input = Qnil
    /\ pc = "idle"
    /\ contexts = <<TopMemoryContext>>
    /\ CurrentMemoryContext = TopMemoryContext
    /\ PG_exception_stack = "NULL"
    /\ errordata_stack_depth = 0
    /\ STDERR_FILENO = "stderr"
    /\ open_fds = 0
    /\ FreshFrame

\* Ruby code calls PgQuery.normalize or PgQuery._raw_parse with some object
Call ==
    /\ pc = "idle"
    /\ Len(contexts) - 1 <= MaxLeaked
    /\ func' \in {"normalize", "raw_parse"}
    /\ input' \in Values
    /\ pc' = "call"
    /\ UNCHANGED <<process, ctx, save_exception_stack, stderr_global, work, result, error>>

\* the call is over, by return or by a Ruby exception: control is back in
\* the Ruby code and the frame with its locals is gone
Return ==
    /\ pc \in {"returned", "raised"}
    /\ func' = "none"
    /\ input' = Qnil
    /\ pc' = "idle"
    /\ ctx' = 0
    /\ save_exception_stack' = "NULL"
    /\ stderr_global' = "none"
    /\ query' = <<>>
    /\ tree' = NullNode
    /\ worklist' = <<>>
    /\ caught' = 0
    /\ jstate' = EmptyJstate
    /\ scanner' = NoScanner
    /\ fill' = FillStart
    /\ gen' = GenStart
    /\ norm_query' = <<>>
    /\ result' = Qnil
    /\ error' = Qnil
    /\ UNCHANGED process

\* AllocSetContextCreate(TopMemoryContext, name, ...): the contexts with the
\* new one added
AllocSetContextCreate(name) == Append(contexts, name)

\* MemoryContextDelete(c): the contexts without the one at place c
MemoryContextDelete(c) ==
    [k \in 1..(Len(contexts) - 1) |-> IF k < c THEN contexts[k] ELSE contexts[k + 1]]

\* ------------------------------------------------------------------ pg_query_normalize
\* Check_Type(input, T_STRING) raises TypeError for another object; else
\* AllocSetContextCreate; MemoryContextSwitchTo(ctx); PG_TRY
Enter ==
    /\ pc = "call"
    /\ func = "normalize"
    /\ IF input.class # "String"
       THEN /\ error' = TypeError
            /\ pc' = "raised"
            /\ UNCHANGED <<contexts, CurrentMemoryContext, ctx, PG_exception_stack,
                           save_exception_stack>>
       ELSE /\ contexts' = AllocSetContextCreate("pg_query_normalize")
            /\ ctx' = Len(contexts')
            /\ CurrentMemoryContext' = contexts'[ctx']
            /\ save_exception_stack' = PG_exception_stack
            /\ PG_exception_stack' = "local_sigjmp_buf"
            /\ pc' = "str"
            /\ UNCHANGED error
    /\ UNCHANGED <<func, input, errordata_stack_depth, STDERR_FILENO, open_fds,
                   stderr_global, work, result>>

\* str = StringValueCStr(input), inside PG_TRY: a string that holds a zero
\* byte makes Ruby raise ArgumentError, which unwinds to the caller past
\* PG_CATCH and the statements after PG_END_TRY; PG_exception_stack is left
\* pointing into the frame that is gone
StringValueCStr ==
    /\ pc = "str"
    /\ IF \E k \in 1..Len(input.str) : input.str[k] = NUL
       THEN /\ error' = ArgumentError
            /\ PG_exception_stack' = "dangling"
            /\ pc' = "raised"
            /\ UNCHANGED query
       ELSE /\ query' = input.str
            /\ pc' = "parse"
            /\ UNCHANGED <<error, PG_exception_stack>>
    /\ UNCHANGED <<frame, contexts, CurrentMemoryContext, errordata_stack_depth,
                   STDERR_FILENO, open_fds, tree, worklist, caught, jstate, scanner,
                   fill, gen, norm_query, result>>

\* tree = raw_parser(str) returns; the workspace for constant recording is set up
ParseOk ==
    /\ pc = "parse"
    /\ \E t \in Trees(query) :
          /\ tree' = t
          /\ worklist' = <<t>>
    /\ jstate' = [clocations |-> <<>>, clocations_buf_size |-> InitBufSize,
                  clocations_count |-> 0]
    /\ pc' = "walk"
    /\ UNCHANGED <<process, frame, query, caught, scanner, fill, gen, norm_query,
                   result, error>>

\* raw_parser(str) raises: the jump restores PG_exception_stack; PG_CATCH
\* copies the error and builds the ParseError, then FlushErrorState empties
\* the error stack
ParseFail ==
    /\ pc = "parse"
    /\ \E e \in ParseErrors(query) : error' = new_parse_error(e)
    /\ PG_exception_stack' = save_exception_stack
    /\ CurrentMemoryContext' \in AfterError
    /\ errordata_stack_depth' = 0
    /\ pc' = "leave"
    /\ UNCHANGED <<frame, contexts, STDERR_FILENO, open_fds, work, result>>

\* raw_parser(str) raises and new_parse_error raises in its turn, in
\* PG_CATCH: the Ruby exception unwinds to the caller before
\* FlushErrorState and past the statements after PG_END_TRY, so the error
\* stays on the error stack and the context stays
ParseFailNewFail ==
    /\ pc = "parse"
    /\ error' = NameError
    /\ PG_exception_stack' = save_exception_stack
    /\ CurrentMemoryContext' \in AfterError
    /\ errordata_stack_depth' = errordata_stack_depth + 1
    /\ pc' = "raised"
    /\ UNCHANGED <<frame, contexts, STDERR_FILENO, open_fds, work, result>>

\* ------------------------------------------------------------------ const_record_walker
\* a faulty Record: the array is never enlarged
RecordNoGrow(js, n) ==
    IF n.tag = "A_Const" /\ n.location >= 0
    THEN [clocations |-> Append(js.clocations, [location |-> n.location, length |-> -1]),
          clocations_buf_size |-> js.clocations_buf_size,
          clocations_count |-> js.clocations_count + 1]
    ELSE js

\* the records after the visit of node n: an A_Const with a known location
\* is appended with length -1, the array doubled first when it is full
Record(js, n) ==
    IF n.tag = "A_Const" /\ n.location >= 0
    THEN [clocations |-> Append(js.clocations, [location |-> n.location, length |-> -1]),
          clocations_buf_size |->
              IF js.clocations_count >= js.clocations_buf_size
              THEN js.clocations_buf_size * 2 ELSE js.clocations_buf_size,
          clocations_count |-> js.clocations_count + 1]
    ELSE js

\* one call of const_record_walker, on the next node in depth-first order.
\* raw_expression_tree_walker calls the walker on each child, or raises
\* before it visits any (n.fails); PG_CATCH flushes the error stack and the
\* call returns false, as every call does, so no caller ever stops its loop
\* early
VisitNode ==
    /\ pc = "walk"
    /\ worklist # <<>>
    /\ LET n == Head(worklist) IN
       IF n.tag = "NULL"
       THEN /\ worklist' = Tail(worklist)
            /\ UNCHANGED <<jstate, caught>>
       ELSE /\ jstate' = Record(jstate, n)
            /\ IF n.fails
               THEN /\ caught' = caught + 1
                    /\ worklist' = Tail(worklist)
               ELSE /\ caught' = caught
                    /\ worklist' = n.kids \o Tail(worklist)
    /\ IF Head(worklist).tag # "NULL" /\ Head(worklist).fails
       THEN /\ errordata_stack_depth' = 0
            /\ CurrentMemoryContext' \in AfterError
       ELSE UNCHANGED <<errordata_stack_depth, CurrentMemoryContext>>
    /\ UNCHANGED <<frame, pc, contexts, PG_exception_stack, STDERR_FILENO, open_fds,
                   query, tree, scanner, fill, gen, norm_query, result, error>>

\* ------------------------------------------------------------------ fill_in_constant_lengths
\* query_len = strlen(str); generate_normalized_query calls
\* fill_in_constant_lengths: the sort and scanner_init
BeginFill ==
    /\ pc = "walk"
    /\ worklist = <<>>
    /\ jstate' = [jstate EXCEPT !.clocations =
                     IF jstate.clocations_count > 1 THEN qsort(@) ELSE @]
    /\ scanner' = scanner_init(scanner)
    /\ fill' = FillStart
    /\ pc' = "fill"
    /\ UNCHANGED <<process, frame, query, tree, worklist, caught, gen, norm_query,
                   result, error>>

\* one pass of the loop over the constants
FillStep ==
    /\ pc = "fill"
    /\ ~FillLoopDone(jstate.clocations, fill)
    /\ LET n == FillIter(query, jstate.clocations, scanner, fill) IN
          /\ jstate' = [jstate EXCEPT !.clocations = n.locs]
          /\ scanner' = n.sc
          /\ fill' = n.f
    /\ UNCHANGED <<process, frame, pc, query, tree, worklist, caught, gen, norm_query,
                   result, error>>

\* the loop is left: scanner_finish; back in generate_normalized_query,
\* norm_query = palloc(query_len + 1)
EndFill ==
    /\ pc = "fill"
    /\ FillLoopDone(jstate.clocations, fill)
    /\ scanner' = scanner_finish(scanner)
    /\ norm_query' = palloc(Len(query) + 1)
    /\ gen' = GenStart
    /\ pc' = "gen"
    /\ UNCHANGED <<process, frame, query, tree, worklist, caught, jstate, fill,
                   result, error>>

\* ------------------------------------------------------------------ generate_normalized_query
\* where a violated assertion leaves the process: a build with assertions
\* aborts; one without goes on into memcpy with a negative length, or into a
\* write past the buffer, which is undefined
Faulted == {"assert_abort", "undefined"}

\* one pass of the loop over the constants
GenStep ==
    /\ pc = "gen"
    /\ gen.i < jstate.clocations_count
    /\ LET n == GenIter(query, jstate.clocations, gen, norm_query) IN
          /\ gen' = n.g
          /\ norm_query' = n.buf
          /\ IF n.g.fault # "none" THEN pc' \in Faulted ELSE pc' = pc
    /\ UNCHANGED <<process, frame, query, tree, worklist, caught, jstate, scanner,
                   fill, result, error>>

\* after the loop: the rest of the text, the terminator, *query_len_p
GenTail ==
    /\ pc = "gen"
    /\ gen.i >= jstate.clocations_count
    /\ LET n == GenTailOf(query, gen, norm_query) IN
          /\ gen' = n.g
          /\ norm_query' = n.buf
          /\ IF n.g.fault # "none" THEN pc' \in Faulted ELSE pc' = "result"
    /\ UNCHANGED <<process, frame, query, tree, worklist, caught, jstate, scanner,
                   fill, result, error>>

\* result = rb_tainted_str_new_cstr(str); pfree(str); PG_END_TRY restores
\* PG_exception_stack
BuildResult ==
    /\ pc = "result"
    /\ result' = RString(CStr(norm_query))
    /\ PG_exception_stack' = save_exception_stack
    /\ pc' = "leave"
    /\ UNCHANGED <<frame, contexts, CurrentMemoryContext, errordata_stack_depth,
                   STDERR_FILENO, open_fds, work, error>>

\* after PG_END_TRY: MemoryContextSwitchTo(TopMemoryContext);
\* MemoryContextDelete(ctx); raise the error or return the result
Leave ==
    /\ pc = "leave"
    /\ CurrentMemoryContext' = TopMemoryContext
    /\ contexts' = MemoryContextDelete(ctx)
    /\ pc' = IF ~error.nil THEN "raised" ELSE "returned"
    /\ UNCHANGED <<frame, PG_exception_stack, errordata_stack_depth, STDERR_FILENO,
                   open_fds, work, result, error>>

\* ------------------------------------------------------------------ pg_query_raw_parse
\* Check_Type(input, T_STRING) raises TypeError for another object; else
\* AllocSetContextCreate; MemoryContextSwitchTo(ctx)
RawEnter ==
    /\ pc = "call"
    /\ func = "raw_parse"
    /\ IF input.class # "String"
       THEN /\ error' = TypeError
            /\ pc' = "raised"
            /\ UNCHANGED <<contexts, CurrentMemoryContext, ctx>>
       ELSE /\ contexts' = AllocSetContextCreate("pg_query_raw_parse")
            /\ ctx' = Len(contexts')
            /\ CurrentMemoryContext' = contexts'[ctx']
            /\ pc' = "raw_pipe"
            /\ UNCHANGED error
    /\ UNCHANGED <<func, input, PG_exception_stack, errordata_stack_depth, STDERR_FILENO,
                   open_fds, save_exception_stack, stderr_global, work, result>>

\* pipe(stderr_pipe) fails: rb_raise(rb_eIOError, ...) leaves the function at
\* once; the context stays, and stays current
RawPipeFail ==
    /\ pc = "raw_pipe"
    /\ error' = IOError
    /\ pc' = "raised"
    /\ UNCHANGED <<process, frame, work, result>>

\* pipe(stderr_pipe) succeeds: stderr_global = dup(STDERR_FILENO), whose
\* result is not tested; dup2(stderr_pipe[1], STDERR_FILENO);
\* close(stderr_pipe[1]); PG_TRY.  The read end of the pipe stays open, and
\* stderr_global too when dup has not failed
RawPipe ==
    /\ pc = "raw_pipe"
    /\ \E dup_ok \in BOOLEAN :
          /\ stderr_global' = IF dup_ok THEN STDERR_FILENO ELSE "-1"
          /\ open_fds' = open_fds + (IF dup_ok THEN 2 ELSE 1)
    /\ STDERR_FILENO' = "pipe"
    /\ save_exception_stack' = PG_exception_stack
    /\ PG_exception_stack' = "local_sigjmp_buf"
    /\ pc' = "raw_str"
    /\ UNCHANGED <<func, input, ctx, contexts, CurrentMemoryContext,
                   errordata_stack_depth, work, result, error>>

\* str = StringValueCStr(input), inside PG_TRY: on a zero byte Ruby raises
\* ArgumentError past PG_CATCH and the statements after PG_END_TRY: stderr
\* stays redirected, the two descriptors stay open, the context stays
RawStringValueCStr ==
    /\ pc = "raw_str"
    /\ IF \E k \in 1..Len(input.str) : input.str[k] = NUL
       THEN /\ error' = ArgumentError
            /\ PG_exception_stack' = "dangling"
            /\ pc' = "raised"
            /\ UNCHANGED query
       ELSE /\ query' = input.str
            /\ pc' = "raw_parse"
            /\ UNCHANGED <<error, PG_exception_stack>>
    /\ UNCHANGED <<frame, contexts, CurrentMemoryContext, errordata_stack_depth,
                   STDERR_FILENO, open_fds, tree, worklist, caught, jstate, scanner,
                   fill, gen, norm_query, result>>

\* tree = raw_parser(str) returns; str = nodeToString(tree); read() of the
\* pipe; result = [str, stderr_buffer]; pfree(str); PG_END_TRY
RawParseOk ==
    /\ pc = "raw_parse"
    /\ \E t \in Trees(query), stderr_buffer \in StderrTexts :
          /\ tree' = t
          /\ result' = RArray(nodeToString(t), stderr_buffer)
    /\ PG_exception_stack' = save_exception_stack
    /\ pc' = "raw_leave"
    /\ UNCHANGED <<frame, contexts, CurrentMemoryContext, errordata_stack_depth,
                   STDERR_FILENO, open_fds, query, worklist, caught, jstate, scanner,
                   fill, gen, norm_query, error>>

\* raw_parser(str) raises: the jump restores PG_exception_stack; PG_CATCH
\* copies the error and builds the ParseError, then FlushErrorState empties
\* the error stack
RawParseFail ==
    /\ pc = "raw_parse"
    /\ \E e \in ParseErrors(query) : error' = new_parse_error(e)
    /\ PG_exception_stack' = save_exception_stack
    /\ CurrentMemoryContext' \in AfterError
    /\ errordata_stack_depth' = 0
    /\ pc' = "raw_leave"
    /\ UNCHANGED <<frame, contexts, STDERR_FILENO, open_fds, work, result>>

\* raw_parser(str) raises and new_parse_error raises in its turn: the Ruby
\* exception unwinds to the caller before FlushErrorState and past the
\* statements after PG_END_TRY; the error, the redirection, the open
\* descriptors and the context stay
RawParseFailNewFail ==
    /\ pc = "raw_parse"
    /\ error' = NameError
    /\ PG_exception_stack' = save_exception_stack
    /\ CurrentMemoryContext' \in AfterError
    /\ errordata_stack_depth' = errordata_stack_depth + 1
    /\ pc' = "raised"
    /\ UNCHANGED <<frame, contexts, STDERR_FILENO, open_fds, work, result>>

\* after PG_END_TRY: dup2(stderr_global, STDERR_FILENO), which does nothing
\* when dup had failed; close(stderr_pipe[0]); close(stderr_global);
\* MemoryContextSwitchTo(TopMemoryContext); MemoryContextDelete(ctx); raise
\* the error or return the result
RawLeave ==
    /\ pc = "raw_leave"
    /\ IF stderr_global = "-1"
       THEN /\ UNCHANGED STDERR_FILENO
            /\ open_fds' = open_fds - 1
       ELSE /\ STDERR_FILENO' = stderr_global
            /\ open_fds' = open_fds - 2
    /\ CurrentMemoryContext' = TopMemoryContext
    /\ contexts' = MemoryContextDelete(ctx)
    /\ pc' = IF ~error.nil THEN "raised" ELSE "returned"
    /\ UNCHANGED <<frame, PG_exception_stack, errordata_stack_depth, work, result, error>>

Next ==
    \/ Call
    \/ Return
    \/ Enter
    \/ StringValueCStr
    \/ ParseOk
    \/ ParseFail
    \/ ParseFailNewFail
    \/ VisitNode
    \/ BeginFill
    \/ FillStep
    \/ EndFill
    \/ GenStep
    \/ GenTail
    \/ BuildResult
    \/ Leave
    \/ RawEnter
    \/ RawPipeFail
    \/ RawPipe
    \/ RawStringValueCStr
    \/ RawParseOk
    \/ RawParseFail
    \/ RawParseFailNewFail
    \/ RawLeave

Spec == Init /\ [][Next]_vars

\* ------------------------------------------------------------------ properties
\* generate_normalized_query has returned its buffer
Normalized == pc = "result" \/ (func = "normalize" /\ pc \in {"leave", "returned"} /\ error.nil)

\* the indices of the records that carry a length
Resolved(locs) == {i \in 1..Len(locs) : locs[i].length >= 0}

\* the number of '?' in a text
Placeholders(s) == Cardinality({k \in 1..Len(s) : s[k] = "?"})

RECURSIVE Rewritten(_, _, _)
\* the text q from offset p on, byte by byte: the first byte of a resolved
\* span becomes '?', its other bytes vanish, every other byte stays
Rewritten(q, locs, p) ==
    IF p >= Len(q) THEN <<>>
    ELSE LET starts == \E i \in Resolved(locs) : locs[i].location = p
             inside == \E i \in Resolved(locs) :
                          locs[i].location < p /\ p < locs[i].location + locs[i].length
         IN (IF inside THEN <<>> ELSE IF starts THEN <<"?">> ELSE <<q[p + 1]>>)
              \o Rewritten(q, locs, p + 1)

\* C1: the output of generate_normalized_query is the source text with each
\* span of length >= 0 replaced by one '?' and every other byte copied in
\* order; with no such span the output and its length are those of the input
C1_OutputIsSourceWithSpansReplaced ==
    Normalized =>
        /\ CStr(norm_query) = Rewritten(query, jstate.clocations, 0)
        /\ gen.n_quer_loc = Len(Rewritten(query, jstate.clocations, 0))
        /\ Resolved(jstate.clocations) = {} =>
              (CStr(norm_query) = query /\ gen.n_quer_loc = Len(query))
        /\ pc # "result" => result = RString(Rewritten(query, jstate.clocations, 0))

\* two constants replaced, a duplicate ignored, other text copied
C1_Witness ==
    /\ func = "normalize"
    /\ pc = "returned"
    /\ Cardinality(Resolved(jstate.clocations)) = 2
    /\ jstate.clocations_count = 3
    /\ Placeholders(result.str) = 2
    /\ \E k \in 1..Len(result.str) : result.str[k] # "?"

\* C2: the length written back through query_len_p is at most the length of
\* the input: the assertion n_quer_loc <= query_len holds and the terminator
\* is written inside the buffer of query_len + 1 bytes
C2_LengthNeverGrows ==
    /\ gen.fault # "n_quer_loc <= query_len (327)"
    /\ Normalized =>
          /\ gen.n_quer_loc <= Len(query)
          /\ gen.n_quer_loc \in DOMAIN norm_query
          /\ norm_query[gen.n_quer_loc] = NUL
          /\ DOMAIN norm_query = 0..Len(query)

\* a run with a duplicate and an unresolved constant whose output is as long
\* as the input
C2_Witness ==
    /\ pc = "result"
    /\ jstate.clocations_count = 3
    /\ Cardinality(Resolved(jstate.clocations)) = 1
    /\ \E i, j \in 1..3 : i # j /\ jstate.clocations[i].location = jstate.clocations[j].location
    /\ scanner.eof
    /\ gen.n_quer_loc = Len(query)

\* the index of the first token after the first pos ones that starts at or
\* after loc; 0 when there is none
FirstAtOrAfter(toks, pos, loc) ==
    LET S == {k \in (pos + 1)..Len(toks) : toks[k].loc >= loc}
    IN IF S = {} THEN 0 ELSE CHOOSE k \in S : \A j \in S : k <= j

\* a pass of the loop of fill_in_constant_lengths is about to run, and runs
FillPass == pc = "fill" /\ pc' = "fill" /\ ~FillLoopDone(jstate.clocations, fill)

\* the offset in the output of the source byte at offset l
OutPos(locs, l) ==
    LET before == {i \in Resolved(locs) : locs[i].location < l}
        RECURSIVE Shrink(_)
        Shrink(S) == IF S = {} THEN 0
                     ELSE LET i == CHOOSE x \in S : TRUE
                          IN (locs[i].length - 1) + Shrink(S \ {i})
    IN l - Shrink(before)

\* the resolved spans in which the byte at offset l lies
Covering(locs, l) ==
    {i \in Resolved(locs) : locs[i].location <= l /\ l < locs[i].location + locs[i].length}

\* the byte at offset l lies in a resolved span
Covered(locs, l) == Covering(locs, l) # {}

\* the byte at offset l, which lies in a resolved span that begins before
\* it, has gone into the one '?' of that span
Swallowed(locs, l) ==
    \E i \in Covering(locs, l) :
        /\ locs[i].location < l
        /\ norm_query[OutPos(locs, locs[i].location)] = "?"

\* the locations that occur in two or more records
Duplicated(locs) ==
    {locs[i].location : i \in {x \in 1..Len(locs) :
        \E y \in 1..Len(locs) : y # x /\ locs[y].location = locs[x].location}}

ResolvedAt(locs, l) == {i \in Resolved(locs) : locs[i].location = l}

\* ---- C3
\* the pass for a new location whose byte is '-': with a token at or after
\* the location and one more after it, exactly those are consumed and the
\* length runs from the sign to the end of the second
C3_Pass ==
    FillPass =>
        LET i == fill.i + 1
            loc == jstate.clocations[i].location
            toks == Tokens(query)
            k == FirstAtOrAfter(toks, scanner.pos, loc)
        IN (loc > fill.last_loc /\ query[loc + 1] = "-") =>
              IF k # 0 /\ k < Len(toks)
              THEN /\ scanner'.pos = k + 1
                   /\ scanner'.calls = scanner.calls + (k - scanner.pos) + 1
                   /\ jstate'.clocations[i].length = toks[k + 1].end - loc
              ELSE /\ jstate'.clocations[i].length = -1
                   /\ scanner'.eof

\* record i is a resolved '-'-prefixed numeric literal: an operator token
\* '-' at its location, then an integer token, and no other constant inside
SignedLiteral(i) ==
    LET locs == jstate.clocations
        loc == locs[i].location
        toks == Tokens(query)
    IN /\ i \in Resolved(locs)
       /\ query[loc + 1] = "-"
       /\ \E k \in 1..(Len(toks) - 1) :
             /\ toks[k].loc = loc
             /\ query[toks[k + 1].loc + 1] = "1"
             /\ locs[i].length = toks[k + 1].end - loc
       /\ \A j \in 1..Len(locs) :
             ~(loc < locs[j].location /\ locs[j].location < loc + locs[i].length)

\* the query with the signed literal of record i replaced by the literal 1
Unsigned(i) ==
    LET loc == jstate.clocations[i].location
        len == jstate.clocations[i].length
    IN SubSeq(query, 1, loc) \o <<"1">> \o SubSeq(query, loc + len + 1, Len(query))

\* the constants the parser reports for Unsigned(i), as collected
UnsignedLocs(i) ==
    LET loc == jstate.clocations[i].location
        len == jstate.clocations[i].length
    IN [j \in 1..Len(jstate.clocations) |->
           [location |-> IF jstate.clocations[j].location > loc
                         THEN jstate.clocations[j].location - (len - 1)
                         ELSE jstate.clocations[j].location,
            length |-> -1]]

\* a query and the same query with an unsigned literal in place of a signed
\* one have the same normalized text
C3_Pairs ==
    pc = "result" =>
        \A i \in 1..Len(jstate.clocations) :
            (/\ SignedLiteral(i)
             /\ \E t \in 1..Len(Tokens(Unsigned(i))) :
                   Tokens(Unsigned(i))[t].loc = jstate.clocations[i].location)
            => LET r == generate_normalized_query(Unsigned(i), UnsignedLocs(i))
               IN /\ r.g.fault = "none"
                  /\ CStr(r.buf) = CStr(norm_query)
                  /\ norm_query[OutPos(jstate.clocations, jstate.clocations[i].location)] = "?"

\* C3: at a location whose byte is '-' fill_in_constant_lengths consumes
\* exactly one more token after the one found and the length covers the sign
\* through the end of that token, so a query with a '-'-prefixed numeric
\* literal normalizes to the same text as the query with an unsigned one
C3_SignMerged == [][C3_Pass]_vars /\ [](C3_Pairs)

\* a signed literal after other text was replaced by one '?'
C3_Witness ==
    /\ pc = "result"
    /\ \E i \in 1..Len(jstate.clocations) :
          /\ SignedLiteral(i)
          /\ jstate.clocations[i].location > 0
          /\ \E t \in 1..Len(Tokens(Unsigned(i))) :
                Tokens(Unsigned(i))[t].loc = jstate.clocations[i].location
    /\ Placeholders(CStr(norm_query)) = 1

\* ---- C4
\* C4 as claimed: of the records that share a location exactly one is
\* resolved, so the output holds exactly one '?' for it
C4_ExactlyOnePlaceholder ==
    Normalized =>
        \A l \in Duplicated(jstate.clocations) :
            /\ Cardinality(ResolvedAt(jstate.clocations, l)) = 1
            /\ norm_query[OutPos(jstate.clocations, l)] = "?"

\* a record at the location of the record before it is passed over
C4_Pass ==
    (FillPass /\ fill.i >= 1
       /\ jstate.clocations[fill.i + 1].location = jstate.clocations[fill.i].location)
    => /\ scanner' = scanner
       /\ jstate' = jstate
       /\ fill' = [fill EXCEPT !.i = @ + 1]

C4_AtMostOne ==
    pc \in {"fill", "gen", "result", "leave", "returned"} =>
        \A l \in Duplicated(jstate.clocations) :
            /\ Cardinality(ResolvedAt(jstate.clocations, l)) <= 1
            /\ Normalized =>
                  /\ Placeholders(CStr(norm_query)) = Cardinality(Resolved(jstate.clocations))
                  /\ ResolvedAt(jstate.clocations, l) # {} =>
                        norm_query[OutPos(jstate.clocations, l)] = "?"
                  /\ (ResolvedAt(jstate.clocations, l) = {} /\ ~Covered(jstate.clocations, l)) =>
                        norm_query[OutPos(jstate.clocations, l)] = query[l + 1]
                  /\ (ResolvedAt(jstate.clocations, l) = {} /\ Covered(jstate.clocations, l)) =>
                        Swallowed(jstate.clocations, l)

\* C4 (amended): of the records that share a location at most one is
\* resolved, the tokenizer is not advanced for the others, and the output
\* holds one '?' for the location if one was resolved and none otherwise:
\* then the byte at the location is copied as it is, unless it lies in an
\* earlier resolved span and has gone into that span's '?'
C4_DuplicatesRewrittenAtMostOnce == [][C4_Pass]_vars /\ [](C4_AtMostOne)

\* three records at one location, one '?'
C4_Witness ==
    /\ func = "normalize"
    /\ pc = "returned"
    /\ jstate.clocations_count = 3
    /\ Cardinality(Duplicated(jstate.clocations)) = 1
    /\ \A i \in 1..3 : jstate.clocations[i].location = jstate.clocations[1].location
    /\ Cardinality(Resolved(jstate.clocations)) = 1
    /\ Placeholders(result.str) = 1
    /\ scanner.calls = 1

\* ---- C5
\* the pass in which the tokenizer reports the end of the input
C5_Pass ==
    (FillPass /\ ~scanner.eof /\ scanner'.eof) =>
        /\ fill'.exited
        /\ fill'.i = fill.i
        /\ \A j \in 1..Len(jstate.clocations) :
              /\ j > fill.i => jstate'.clocations[j].length = -1
              /\ j <= fill.i => jstate'.clocations[j] = jstate.clocations[j]
        /\ error' = Qnil
        /\ errordata_stack_depth' = errordata_stack_depth

\* the rewriter passes over a record without a length
C5_Skip ==
    (pc = "gen" /\ gen.i < jstate.clocations_count
       /\ jstate.clocations[gen.i + 1].length < 0
       /\ gen' # gen)
    => /\ norm_query' = norm_query
       /\ gen' = [gen EXCEPT !.i = @ + 1]
       /\ pc' = "gen"

\* C5 as claimed: once the tokenizer has reported the end of the input, the
\* byte at the location of every span left without a length is in the
\* output as it is in the source
C5_UnresolvedBytesUnreplaced ==
    (scanner.eof /\ Normalized) =>
        \A j \in 1..Len(jstate.clocations) :
            j > fill.i =>
                norm_query[OutPos(jstate.clocations, jstate.clocations[j].location)]
                    = query[jstate.clocations[j].location + 1]

C5_After ==
    scanner.eof =>
        /\ fill.exited
        /\ pc # "raised"
        /\ error = Qnil
        /\ \A j \in 1..Len(jstate.clocations) :
              j > fill.i =>
                 LET l == jstate.clocations[j].location IN
                 /\ jstate.clocations[j].length = -1
                 /\ (Normalized /\ ~Covered(jstate.clocations, l)) =>
                        norm_query[OutPos(jstate.clocations, l)] = query[l + 1]
                 /\ (Normalized /\ Covered(jstate.clocations, l)) =>
                        Swallowed(jstate.clocations, l)
        /\ Normalized =>
              /\ Placeholders(CStr(norm_query)) = Cardinality(Resolved(jstate.clocations))
              /\ \A k \in 0..(gen.n_quer_loc - 1) :
                    norm_query[k] = "?" =>
                       \E i \in Resolved(jstate.clocations) :
                           /\ i <= fill.i
                           /\ OutPos(jstate.clocations, jstate.clocations[i].location) = k

\* C5 (amended): when the tokenizer reports the end of the input during the
\* search for a span, that span and all later ones keep length -1, the
\* earlier ones keep their lengths, no error is raised, and the rewriter
\* writes no '?' for the unresolved spans: the byte at the location of such
\* a span is copied as it is, unless it lies in an earlier resolved span and
\* has gone into that span's '?'
C5_EndOfInputStopsResolution == [][C5_Pass /\ C5_Skip]_vars /\ [](C5_After)

\* one span resolved, the second ran into the end of the input, a third
\* was never looked for
C5_Witness ==
    /\ func = "normalize"
    /\ pc = "returned"
    /\ scanner.eof
    /\ fill.i = 1
    /\ jstate.clocations_count = 3
    /\ Duplicated(jstate.clocations) = {}
    /\ Resolved(jstate.clocations) = {1}
    /\ Placeholders(result.str) = 1
    /\ Len(result.str) = 3

\* ---- C6
\* C6: a call that created its memory context has switched back to the top
\* context and deleted its own when it returns or raises; a parser failure
\* reaches the caller as a ParseError and leaves no normalized text
C6_ContextReleasedOnEveryExit ==
    (func = "normalize" /\ pc \in {"returned", "raised"} /\ ctx # 0) =>
        /\ CurrentMemoryContext = TopMemoryContext
        /\ ctx \notin DOMAIN contexts
        /\ pc = "raised" => result = Qnil

\* ---- C7
\* C7 as claimed: a resolved span that does not begin with '-' has the
\* length of the token that starts at its location
C7_LengthOfTokenAtLocation ==
    pc \in {"fill", "gen", "result"} =>
        \A i \in Resolved(jstate.clocations) :
            LET loc == jstate.clocations[i].location IN
            query[loc + 1] # "-" =>
                \E t \in 1..Len(Tokens(query)) :
                    /\ Tokens(query)[t].loc = loc
                    /\ jstate.clocations[i].length = Tokens(query)[t].end - Tokens(query)[t].loc

\* the pass for a new location whose byte is not '-'
C7_Pass ==
    FillPass =>
        LET i == fill.i + 1
            loc == jstate.clocations[i].location
            toks == Tokens(query)
            k == FirstAtOrAfter(toks, scanner.pos, loc)
        IN (loc > fill.last_loc /\ query[loc + 1] # "-") =>
              IF k # 0
              THEN /\ scanner'.pos = k
                   /\ jstate'.clocations[i].length = toks[k].end - loc
                   /\ toks[k].loc = loc =>
                         jstate'.clocations[i].length = toks[k].end - toks[k].loc
              ELSE /\ jstate'.clocations[i].length = -1
                   /\ scanner'.eof

\* C7 (amended): a resolved span that does not begin with '-' runs from its
\* location to the end of the first token the tokenizer returns that starts
\* at or after the location: the length of that token when it starts at the
\* location, more when it starts after it
C7_LengthToEndOfTokenFound == [][C7_Pass]_vars

\* a span resolved with a token that starts after its location
C7_Witness ==
    /\ pc = "fill"
    /\ \E i \in Resolved(jstate.clocations) :
          LET loc == jstate.clocations[i].location IN
          /\ query[loc + 1] # "-"
          /\ \A t \in 1..Len(Tokens(query)) : Tokens(query)[t].loc # loc
          /\ jstate.clocations[i].length >= 2

\* ---- C8
\* C8: the copy lengths of generate_normalized_query are never negative:
\* resolved spans do not overlap
C8_CopyLengthNeverNegative ==
    /\ gen.len_to_wrt >= 0
    /\ gen.fault \notin {"len_to_wrt >= 0 (305)", "len_to_wrt >= 0 (323)"}
    /\ pc \in {"gen", "result"} =>
          \A i, j \in Resolved(jstate.clocations) :
              i < j => jstate.clocations[i].location + jstate.clocations[i].length
                          <= jstate.clocations[j].location

\* ---- C9
\* fill_in_constant_lengths has returned
AfterFill == pc \in {"gen", "result"} \cup Faulted \/ Normalized

C9_Scanner ==
    /\ scanner.inits <= 1
    /\ scanner.finishes <= 1
    /\ ~scanner.after_eof
    /\ scanner.calls <= Len(Tokens(query)) + 1
    /\ scanner.calls <= scanner.pos + 1
    /\ pc = "fill" => scanner.state = "active" /\ scanner.inits = 1 /\ scanner.finishes = 0
    /\ AfterFill => scanner.state = "finished" /\ scanner.inits = 1 /\ scanner.finishes = 1

\* the tokenizer only moves forward, and is not touched once finished
C9_Forward ==
    pc' # "idle" =>
        /\ scanner'.pos >= scanner.pos
        /\ scanner'.calls - scanner.calls = (scanner'.pos - scanner.pos)
              + (IF scanner'.eof /\ ~scanner.eof THEN 1 ELSE 0)
        /\ scanner.state = "finished" => scanner' = scanner

\* C9: in one run of fill_in_constant_lengths the tokenizer is initialized
\* once and finished once on every way out of the loop, never rewound,
\* never asked for a token after the end of the input, and asked for at most
\* one token more than the source holds
C9_SinglePassTokenizer == [][C9_Forward]_vars /\ [](C9_Scanner)

\* three spans, two tokens or more, and the end of the input was reported
C9_Witness ==
    /\ pc = "gen"
    /\ jstate.clocations_count = 3
    /\ Len(Tokens(query)) >= 2
    /\ scanner.eof
    /\ scanner.calls = Len(Tokens(query)) + 1
    /\ Resolved(jstate.clocations) # {}

\* ---- C10
RECURSIVE Recorded(_)
\* the records of the walk of a sequence of sibling nodes, by recursion down
\* the tree: a constant with a location counts, the children of a node
\* whose visit fails do not
Recorded(nodes) ==
    IF nodes = <<>> THEN <<>>
    ELSE LET n == Head(nodes) IN
         (IF n.tag = "A_Const" /\ n.location >= 0
          THEN <<[location |-> n.location, length |-> -1]>> ELSE <<>>)
         \o (IF n.tag # "NULL" /\ ~n.fails THEN Recorded(n.kids) ELSE <<>>)
         \o Recorded(Tail(nodes))

RECURSIVE Failures(_)
\* the failing visits of that walk
Failures(nodes) ==
    IF nodes = <<>> THEN 0
    ELSE LET n == Head(nodes) IN
         (IF n.fails THEN 1 ELSE 0)
         + (IF n.tag # "NULL" /\ ~n.fails THEN Failures(n.kids) ELSE 0)
         + Failures(Tail(nodes))

RECURSIVE Doubled(_)
Doubled(n) == n = InitBufSize \/ (n > InitBufSize /\ n % 2 = 0 /\ Doubled(n \div 2))

\* C10: a failing visit is caught and cleared and the walk goes on: every
\* constant with a location outside the children of a failing node is
\* recorded once per visit with length -1, one without a location never,
\* and the count stays within the capacity, which doubles when it is full
C10_WalkRecordsAllReachableConstants ==
    pc = "walk" =>
        /\ jstate.clocations \o Recorded(worklist) = Recorded(<<tree>>)
        /\ caught + Failures(worklist) = Failures(<<tree>>)
        /\ caught > 0 => errordata_stack_depth = 0
        /\ error = Qnil
        /\ jstate.clocations_count = Len(jstate.clocations)
        /\ jstate.clocations_count <= jstate.clocations_buf_size
        /\ Doubled(jstate.clocations_buf_size)
        /\ jstate.clocations_buf_size > InitBufSize =>
              jstate.clocations_buf_size \div 2 < jstate.clocations_count
        /\ \A i \in 1..Len(jstate.clocations) :
              jstate.clocations[i].length = -1 /\ jstate.clocations[i].location >= 0

\* the walk is over: the visit of the first statement failed, its child was
\* not visited, and the constant after it was recorded
C10_Witness ==
    /\ pc = "walk"
    /\ worklist = <<>>
    /\ tree.tag = "List"
    /\ Len(tree.kids) = 2
    /\ tree.kids[1].fails
    /\ tree.kids[1].kids = <<ConstNode(0, FALSE)>>
    /\ tree.kids[2] = ConstNode(0, FALSE)
    /\ caught = 1
    /\ jstate.clocations = <<[location |-> 0, length |-> -1]>>

====
